---- MODULE Spec2Model ----
(***************************************************************************)
(* Retrieval engine of doc-intelligence: the BM25 keyword index            *)
(* (docint/retrieval/bm25.py), the hybrid retriever that fuses it with a   *)
(* vector store by Reciprocal Rank Fusion (docint/retrieval/hybrid.py),    *)
(* the rerankers (docint/retrieval/reranker.py), the query expanders       *)
(* (docint/retrieval/hyde.py) and the fixed-size chunker                   *)
(* (docint/ingest/chunkers.py).                                            *)
(*                                                                         *)
(* Texts are sequences of one-character strings.  Python floats are        *)
(* modelled exactly where the code only divides small integers (average    *)
(* length, RRF scores: rationals <<numerator, denominator>>), in           *)
(* millionths where math.log is involved (BM25 scores) and in hundredths   *)
(* for the scores of the rerankers.                                        *)
(***************************************************************************)
EXTENDS Integers, Sequences, FiniteSets, TLC

VARIABLES
    documents,       \* BM25Index._documents: id -> content
    metadata,        \* BM25Index._metadata: id -> metadata
    doc_lengths,     \* BM25Index._doc_lengths: id -> token count
    avgdl,           \* BM25Index._avgdl, as the rational <<sum, count>>
    inverted_index,  \* BM25Index._inverted_index: term -> posting, in insertion order
    idf_cache,       \* BM25Index._idf_cache: term -> idf (millionths)
    retriever,       \* the HybridRetriever's fields, or NoRetriever before construction
    reranker,        \* the reranker's fields, or NoReranker before construction
    chunker,         \* the FixedChunker's fields, or NoChunker before construction
    added,           \* history: the ids passed to add since construction or the last clear
    last             \* the last call made and what it returned or raised

vars == <<documents, metadata, doc_lengths, avgdl, inverted_index, idf_cache,
          retriever, reranker, chunker, added, last>>

indexVars == <<documents, metadata, doc_lengths, avgdl, inverted_index, idf_cache>>

----------------------------------------------------------------------------
(* Bounds of the model *)

\* longest batch handed to one BM25Index.add call
MaxBatch == 1
\* largest top_k a caller passes
MaxTopK == 2

(* Inputs *)

DocIds == {"d1", "d2"}

\* metadata dictionaries: the empty one and one with an entry
EmptyMeta == "{}"
GivenMeta == "{src}"

\* document texts: no token, a repeated token in two cases, one token, two tokens
Corpus == { <<>>, <<"a", " ", "A">>, <<"b">>, <<"a", "-", "b">> }

\* query texts: empty, one token, two tokens with upper case, unknown token
Queries == { <<>>, <<"a">>, <<"B", " ", "a">>, <<"c">> }

----------------------------------------------------------------------------
(* Python helpers *)

Min(x, y) == IF x <= y THEN x ELSE y
Max(x, y) == IF x >= y THEN x ELSE y

\* seq[:k], also for negative k
Slice(seq, k) ==
    IF k >= 0 THEN SubSeq(seq, 1, Min(k, Len(seq)))
    ELSE SubSeq(seq, 1, Max(Len(seq) + k, 0))

\* str.isalnum() on one character
IsAlnum(char) == char \in {"a", "b", "c", "s", "A", "B", "C", "S", "ß", "0", "1"}

\* str.lower() on one character
Lower(char) ==
    CASE char = "A" -> "a"
      [] char = "B" -> "b"
      [] char = "C" -> "c"
      [] char = "S" -> "s"
      [] OTHER -> char

\* math.log(k) in millionths, k = 1..14
LogTable == << 0, 693147, 1098612, 1386294, 1609438, 1791759, 1945910,
               2079442, 2197225, 2302585, 2397895, 2484907, 2564949, 2639057 >>

\* floor(x * num / den) without leaving 32 bits
MulDiv(x, num, den) == (x \div den) * num + ((x % den) * num) \div den

\* sorted(items, key = score, reverse = True): stable, equal keys keep their order
RECURSIVE InsertDesc(_, _)
InsertDesc(sorted, item) ==
    IF sorted = <<>> THEN <<item>>
    ELSE IF Head(sorted).score >= item.score
         THEN <<Head(sorted)>> \o InsertDesc(Tail(sorted), item)
         ELSE <<item>> \o sorted

RECURSIVE SortedDesc(_)
SortedDesc(items) ==
    IF items = <<>> THEN <<>>
    ELSE InsertDesc(SortedDesc(SubSeq(items, 1, Len(items) - 1)), items[Len(items)])

----------------------------------------------------------------------------
(* BM25Index *)

\* default tuning parameters k1 = 1.5 and b = 0.75, as fractions
K1Num == 3
K1Den == 2
BNum == 3
BDen == 4

\* a tokenization that keeps the case of the text
RECURSIVE TokenizeKeepsCase(_, _, _, _)
TokenizeKeepsCase(text, i, tokens, current_token) ==
    IF i > Len(text)
    THEN IF current_token # <<>> THEN Append(tokens, current_token) ELSE tokens
    ELSE LET char == text[i] IN
         IF IsAlnum(char)
         THEN TokenizeKeepsCase(text, i + 1, tokens, Append(current_token, char))
         ELSE IF current_token # <<>>
              THEN TokenizeKeepsCase(text, i + 1, Append(tokens, current_token), <<>>)
              ELSE TokenizeKeepsCase(text, i + 1, tokens, current_token)

RECURSIVE TokenizeFrom(_, _, _, _)
TokenizeFrom(text, i, tokens, current_token) ==
    IF i > Len(text)
    THEN IF current_token # <<>> THEN Append(tokens, current_token) ELSE tokens
    ELSE LET char == Lower(text[i]) IN
         IF IsAlnum(char)
         THEN TokenizeFrom(text, i + 1, tokens, Append(current_token, char))
         ELSE IF current_token # <<>>
              THEN TokenizeFrom(text, i + 1, Append(tokens, current_token), <<>>)
              ELSE TokenizeFrom(text, i + 1, tokens, current_token)

Tokenize(text) == TokenizeFrom(text, 1, <<>>, <<>>)

\* term_freq[token] += 1 over the tokens
TermFreq(tokens, term) == Cardinality({i \in 1..Len(tokens) : tokens[i] = term})

PostingIds(posting) == {posting[i].id : i \in 1..Len(posting)}

\* self._inverted_index[term][doc_id] = freq: a dict assignment, which keeps the
\* position of a key that is already there
SetPosting(posting, doc_id, freq) ==
    IF doc_id \in PostingIds(posting)
    THEN [i \in 1..Len(posting) |->
            IF posting[i].id = doc_id THEN [id |-> doc_id, tf |-> freq] ELSE posting[i]]
    ELSE Append(posting, [id |-> doc_id, tf |-> freq])

\* one iteration of the loop of add, on the index fields it writes
AddOne(ix, item) ==
    LET tokens == Tokenize(item.content)
        terms == {tokens[i] : i \in 1..Len(tokens)}
    IN [ documents |-> (item.id :> item.content) @@ ix.documents,
         metadata |-> (item.id :> item.metadata) @@ ix.metadata,
         doc_lengths |-> (item.id :> Len(tokens)) @@ ix.doc_lengths,
         inverted_index |->
            [term \in DOMAIN ix.inverted_index \cup terms |->
                LET old == IF term \in DOMAIN ix.inverted_index
                           THEN ix.inverted_index[term] ELSE <<>>
                IN IF term \in terms
                   THEN SetPosting(old, item.id, TermFreq(tokens, term))
                   ELSE old] ]

RECURSIVE AddAll(_, _)
AddAll(ix, items) ==
    IF items = <<>> THEN ix ELSE AddAll(AddOne(ix, Head(items)), Tail(items))

RECURSIVE SumOver(_, _)
SumOver(f, S) ==
    IF S = {} THEN 0
    ELSE LET x == CHOOSE y \in S : TRUE IN f[x] + SumOver(f, S \ {x})

\* sum(self._doc_lengths.values()) / len(self._doc_lengths), when there is a length
NewAvgdl(lengths, old) ==
    IF DOMAIN lengths # {}
    THEN <<SumOver(lengths, DOMAIN lengths), Cardinality(DOMAIN lengths)>>
    ELSE old

Index == [documents |-> documents, metadata |-> metadata,
          doc_lengths |-> doc_lengths, inverted_index |-> inverted_index]

\* the value None of an optional argument; a given integer n is <<n>>
None == <<>>

\* if metadatas is None: metadatas = [{} for _ in ids]
MetadataList(ids, metadatas) ==
    IF metadatas = None THEN [i \in 1..Len(ids) |-> EmptyMeta] ELSE metadatas

\* zip(ids, contents, metadatas): as long as the shortest of the three
Zip(ids, contents, metadatas) ==
    [i \in 1..Min(Len(ids), Min(Len(contents), Len(metadatas))) |->
        [id |-> ids[i], content |-> contents[i], metadata |-> metadatas[i]]]

\* the argument lists add receives
AddCalls ==
    UNION {[ids : [1..n -> DocIds], contents : [1..n -> Corpus],
            metadatas : {None, [i \in 1..n |-> GivenMeta]}] : n \in 0..MaxBatch}

Idle == [op |-> "idle"]

\* len(self._documents)
CountOf(docs) == Cardinality(DOMAIN docs)

\* an add that leaves the IDF cache as it is
AddKeepsCache(ids, contents, metadatas) ==
    LET ix == AddAll(Index, Zip(ids, contents, MetadataList(ids, metadatas))) IN
    /\ last = Idle
    /\ documents' = ix.documents
    /\ metadata' = ix.metadata
    /\ doc_lengths' = ix.doc_lengths
    /\ inverted_index' = ix.inverted_index
    /\ avgdl' = NewAvgdl(ix.doc_lengths, avgdl)
    /\ last' = [op |-> "add",
                replaced |-> {ids[i] : i \in 1..Len(ids)} \cap DOMAIN documents]
    /\ added' = added \cup {ids[i] : i \in 1..Len(ids)}
    /\ UNCHANGED <<idf_cache, retriever, reranker, chunker>>

Add(ids, contents, metadatas) ==
    LET ix == AddAll(Index, Zip(ids, contents, MetadataList(ids, metadatas))) IN
    /\ last = Idle
    /\ documents' = ix.documents
    /\ metadata' = ix.metadata
    /\ doc_lengths' = ix.doc_lengths
    /\ inverted_index' = ix.inverted_index
    /\ avgdl' = NewAvgdl(ix.doc_lengths, avgdl)
    /\ idf_cache' = <<>>
    /\ last' = [op |-> "add",
                replaced |-> {ids[i] : i \in 1..Len(ids)} \cap DOMAIN documents]
    /\ added' = added \cup {ids[i] : i \in 1..Len(ids)}
    /\ UNCHANGED <<retriever, reranker, chunker>>

\* a clear that leaves the postings as they are
ClearKeepsPostings ==
    /\ last = Idle
    /\ documents' = <<>>
    /\ metadata' = <<>>
    /\ doc_lengths' = <<>>
    /\ idf_cache' = <<>>
    /\ avgdl' = <<0, 1>>
    /\ last' = [op |-> "clear", dropped |-> CountOf(documents)]
    /\ added' = {}
    /\ UNCHANGED <<inverted_index, retriever, reranker, chunker>>

\* a clear that leaves _avgdl as it is
ClearKeepsAvgdl ==
    /\ last = Idle
    /\ documents' = <<>>
    /\ metadata' = <<>>
    /\ doc_lengths' = <<>>
    /\ inverted_index' = <<>>
    /\ idf_cache' = <<>>
    /\ last' = [op |-> "clear", dropped |-> CountOf(documents)]
    /\ added' = {}
    /\ UNCHANGED <<avgdl, retriever, reranker, chunker>>

\* a clear that leaves _documents as it is
ClearKeepsDocuments ==
    /\ last = Idle
    /\ metadata' = <<>>
    /\ doc_lengths' = <<>>
    /\ inverted_index' = <<>>
    /\ idf_cache' = <<>>
    /\ avgdl' = <<0, 1>>
    /\ last' = [op |-> "clear", dropped |-> CountOf(documents)]
    /\ added' = {}
    /\ UNCHANGED <<documents, retriever, reranker, chunker>>

Clear ==
    /\ last = Idle
    /\ documents' = <<>>
    /\ metadata' = <<>>
    /\ doc_lengths' = <<>>
    /\ inverted_index' = <<>>
    /\ idf_cache' = <<>>
    /\ avgdl' = <<0, 1>>
    /\ last' = [op |-> "clear", dropped |-> CountOf(documents)]
    /\ added' = {}
    /\ UNCHANGED <<retriever, reranker, chunker>>

\* the value _idf computes: log((n - df + 0.5) / (df + 0.5) + 1), which is
\* log((2n + 2) / (2df + 1)), in millionths
IdfValue(n, df) == LogTable[2 * n + 2] - LogTable[2 * df + 1]

\* _idf(term): the cached value when there is one
Idf(cache, docs, inv, term) ==
    IF term \in DOMAIN cache THEN cache[term]
    ELSE IdfValue(Cardinality(DOMAIN docs),
                  IF term \in DOMAIN inv THEN Len(inv[term]) ELSE 0)

\* a scoring that takes presence for frequency: tf * (k1 + 1) has lost its tf
TermScorePresence(idf, tf, doc_len, sum, count) ==
    MulDiv(idf,
           (K1Num + K1Den) * BDen * sum,
           K1Den * BDen * sum
             + K1Num * ((BDen - BNum) * sum + BNum * doc_len * count))

\* idf * (numerator / denominator) of the scoring loop, in millionths, with
\* avgdl = sum / count; the caller has excluded a zero divisor
TermScore(idf, tf, doc_len, sum, count) ==
    MulDiv(idf,
           tf * (K1Num + K1Den) * BDen * sum,
           tf * K1Den * BDen * sum
             + K1Num * ((BDen - BNum) * sum + BNum * doc_len * count))

\* whether doc_len / self._avgdl or numerator / denominator divides by zero
DividesByZero(tf, doc_len, sum, count) ==
    \/ sum = 0
    \/ tf * K1Den * BDen * sum
         + K1Num * ((BDen - BNum) * sum + BNum * doc_len * count) = 0

\* scores[doc_id] += delta on a defaultdict(float), which keeps insertion order
AddScore(scores, doc_id, delta) ==
    IF \E i \in 1..Len(scores) : scores[i].id = doc_id
    THEN [i \in 1..Len(scores) |->
            IF scores[i].id = doc_id
            THEN [id |-> doc_id, score |-> scores[i].score + delta]
            ELSE scores[i]]
    ELSE Append(scores, [id |-> doc_id, score |-> delta])

\* the inner loop of search over one posting list
RECURSIVE ScorePosting(_, _, _, _, _)
ScorePosting(run, posting, idf, lengths, avg) ==
    IF posting = <<>> \/ run.raised THEN run
    ELSE LET doc_id == Head(posting).id
             tf == Head(posting).tf
             doc_len == lengths[doc_id]
         IN IF DividesByZero(tf, doc_len, avg[1], avg[2])
            THEN [run EXCEPT !.raised = TRUE]
            ELSE ScorePosting(
                    [run EXCEPT !.scores =
                        AddScore(@, doc_id, TermScore(idf, tf, doc_len, avg[1], avg[2]))],
                    Tail(posting), idf, lengths, avg)

\* the loop of search over the query tokens; run = [cache, scores, raised]
RECURSIVE ScoreTerms(_, _, _, _, _, _)
ScoreTerms(run, query_tokens, docs, inv, lengths, avg) ==
    IF query_tokens = <<>> \/ run.raised THEN run
    ELSE LET term == Head(query_tokens) IN
         IF term \notin DOMAIN inv
         THEN ScoreTerms(run, Tail(query_tokens), docs, inv, lengths, avg)
         ELSE LET idf == Idf(run.cache, docs, inv, term)
                  cached == [run EXCEPT !.cache = (term :> idf) @@ @]
              IN ScoreTerms(ScorePosting(cached, inv[term], idf, lengths, avg),
                            Tail(query_tokens), docs, inv, lengths, avg)

\* sorted(scores.items(), by score, reverse)[:top_k] as BM25Result objects
ResultsOf(scores, top_k, docs, meta) ==
    LET sorted_docs == Slice(SortedDesc(scores), top_k)
    IN [i \in 1..Len(sorted_docs) |->
          [chunk_id |-> sorted_docs[i].id,
           content |-> docs[sorted_docs[i].id],
           score |-> sorted_docs[i].score,
           metadata |-> meta[sorted_docs[i].id]]]

\* BM25Index.search as a function of the index: what it returns or raises, and
\* the IDF cache it leaves
SearchRun(query, top_k, docs, meta, inv, lengths, avg, cache) ==
    LET query_tokens == Tokenize(query)
        run == ScoreTerms([cache |-> cache, scores |-> <<>>, raised |-> FALSE],
                          query_tokens, docs, inv, lengths, avg)
    IN IF query_tokens = <<>>
       THEN [cache |-> cache, raised |-> FALSE, results |-> <<>>]
       ELSE IF run.raised
       THEN [cache |-> run.cache, raised |-> TRUE, results |-> <<>>]
       ELSE [cache |-> run.cache, raised |-> FALSE,
             results |-> ResultsOf(run.scores, top_k, docs, meta)]

IndexSearch(query, top_k) ==
    SearchRun(query, top_k, documents, metadata, inverted_index, doc_lengths,
              avgdl, idf_cache)

Search(query, top_k) ==
    LET out == IndexSearch(query, top_k) IN
    /\ last = Idle
    /\ idf_cache' = out.cache
    /\ last' = [op |-> "search", query |-> query, top_k |-> top_k,
                raised |-> out.raised, results |-> out.results]
    /\ UNCHANGED <<documents, metadata, doc_lengths, avgdl, inverted_index, retriever,
                    reranker, chunker, added>>

\* Searches run by several threads on one index.  A thread takes one step per
\* access to the IDF cache, the only field a search writes: the membership
\* test of _idf, then the read of the cached value or the write of a new one.
\* What a thread does between two accesses reads fields no search writes and
\* is part of the step before.

\* the query tokens from the first one that has a posting list
RECURSIVE SkipAbsent(_)
SkipAbsent(terms) ==
    IF terms # <<>> /\ Head(terms) \notin DOMAIN inverted_index
    THEN SkipAbsent(Tail(terms)) ELSE terms

\* the thread goes on to the next query token with a posting list, or returns
Advance(frame, terms) ==
    LET rest == SkipAbsent(terms) IN
    IF rest = <<>>
    THEN [frame EXCEPT !.pc = "done", !.terms = <<>>,
                       !.results = ResultsOf(frame.scores, frame.top_k, documents, metadata)]
    ELSE [frame EXCEPT !.pc = "in_cache", !.terms = rest]

\* the scoring loop over the posting list of the current token, with its idf
Scoring(frame, idf) ==
    LET run == ScorePosting(frame, inverted_index[Head(frame.terms)], idf,
                            doc_lengths, avgdl)
    IN IF run.raised THEN [run EXCEPT !.pc = "done", !.terms = <<>>]
       ELSE Advance(run, Tail(frame.terms))

\* a write that leaves only the entry written in the cache
IdfWriteAlone(cache, term, idf) == term :> idf

\* self._idf_cache[term] = idf
IdfWrite(cache, term, idf) == (term :> idf) @@ cache

NewFrame(query, top_k) ==
    [query |-> query, top_k |-> top_k, pc |-> "start", terms |-> <<>>,
     scores |-> <<>>, raised |-> FALSE, results |-> <<>>]

\* two threads call search
StartSearches(query1, query2, top_k) ==
    /\ last = Idle
    /\ last' = [op |-> "searches",
                frames |-> <<NewFrame(query1, top_k), NewFrame(query2, top_k)>>,
                before |-> [index |-> Index, avgdl |-> avgdl, cache |-> idf_cache],
                writes |-> {}]
    /\ UNCHANGED <<indexVars, retriever, reranker, chunker, added>>

\* one step of thread i
SearchStep(i) ==
    /\ last.op = "searches"
    /\ i \in DOMAIN last.frames
    /\ last.frames[i].pc # "done"
    /\ LET frame == last.frames[i]
           term == Head(frame.terms)
           n == Cardinality(DOMAIN documents)
           df == Len(inverted_index[term])
       IN CASE frame.pc = "start" ->
                 /\ last' = [last EXCEPT !.frames[i] =
                                IF Tokenize(frame.query) = <<>>
                                THEN [frame EXCEPT !.pc = "done"]
                                ELSE Advance(frame, Tokenize(frame.query))]
                 /\ UNCHANGED idf_cache
            [] frame.pc = "in_cache" ->
                 /\ last' = [last EXCEPT !.frames[i].pc =
                                IF term \in DOMAIN idf_cache THEN "cached" ELSE "compute"]
                 /\ UNCHANGED idf_cache
            [] frame.pc = "cached" ->
                 /\ last' = [last EXCEPT !.frames[i] =
                                IF term \in DOMAIN idf_cache
                                THEN Scoring(frame, idf_cache[term])
                                ELSE [frame EXCEPT !.pc = "done", !.terms = <<>>,
                                                   !.raised = TRUE]]
                 /\ UNCHANGED idf_cache
            [] frame.pc = "compute" ->
                 /\ idf_cache' = IdfWrite(idf_cache, term, IdfValue(n, df))
                 /\ last' = [last EXCEPT
                                !.frames[i] = Scoring(frame, IdfValue(n, df)),
                                !.writes = @ \cup {[thread |-> i, term |-> term,
                                                    idf |-> IdfValue(n, df)]}]
    /\ UNCHANGED <<documents, metadata, doc_lengths, avgdl, inverted_index, retriever,
                    reranker, chunker, added>>

Count ==
    /\ last = Idle
    /\ last' = [op |-> "count", value |-> CountOf(documents)]
    /\ UNCHANGED <<indexVars, retriever, reranker, chunker, added>>

----------------------------------------------------------------------------
(* Fractions <<numerator, denominator>>, denominator > 0, in lowest terms *)

RECURSIVE Gcd(_, _)
Gcd(x, y) == IF y = 0 THEN x ELSE Gcd(y, x % y)

Abs(x) == IF x < 0 THEN -x ELSE x

\* num / den for den # 0
Rat(num, den) ==
    LET g == Gcd(Abs(num), Abs(den))
        sign == IF den < 0 THEN -1 ELSE 1
    IN <<sign * (num \div g), sign * (den \div g)>>

RatAdd(x, y) == Rat(x[1] * y[2] + y[1] * x[2], x[2] * y[2])
RatGeq(x, y) == x[1] * y[2] >= y[1] * x[2]
RatGt(x, y) == x[1] * y[2] > y[1] * x[2]

----------------------------------------------------------------------------
(* The vector store and the embedder, external to the retrieval engine *)

\* identifiers the vector store holds: one shared with the keyword index, one not
VectorIds == {"d1", "d3"}

\* the store's own copy of content and metadata
StoreContent == <<"v">>
StoreMeta == "{vs}"

\* sequences of distinct elements of S, no longer than n
RECURSIVE Arrangements(_, _)
Arrangements(S, n) ==
    IF n <= 0 \/ S = {} THEN {<<>>}
    ELSE {<<>>} \cup UNION {{<<x>> \o rest : rest \in Arrangements(S \ {x}, n - 1)} : x \in S}

\* what BaseVectorStore.search(query_embedding, top_k) may return: a ranked list of
\* at most top_k stored items
VectorSearch(top_k) ==
    {[i \in 1..Len(ids) |-> [chunk_id |-> ids[i], content |-> StoreContent,
                             metadata |-> StoreMeta]] : ids \in Arrangements(VectorIds, top_k)}

----------------------------------------------------------------------------
(* HybridRetriever *)

\* defaults of HybridRetriever.__init__
DefaultTopK == 5
DefaultRrfK == 60

\* constructor arguments within the documented ranges (rrf_k >= 0, weight in [0,1])
ValidRrfK == {DefaultRrfK, 0}
ValidWeights == {<<0, 1>>, <<1, 2>>, <<1, 1>>}
\* constructor arguments of the declared types, in the documented range or not
RrfKArgs == ValidRrfK \cup {-1}
WeightArgs == ValidWeights \cup {<<3, 2>>}
\* top_k arguments of retrieve
TopKArgs == {None} \cup {<<n>> : n \in 0..MaxTopK}

NoRetriever == [constructed |-> FALSE]

\* HybridRetriever.__init__: the arguments are stored as given
Construct(top_k, rrf_k, semantic_weight) ==
    /\ last = Idle
    /\ ~retriever.constructed
    /\ retriever' = [constructed |-> TRUE, top_k |-> top_k, rrf_k |-> rrf_k,
                     semantic_weight |-> semantic_weight]
    /\ last' = [op |-> "construct"]
    /\ UNCHANGED <<indexVars, reranker, chunker, added>>

\* k = top_k or self.top_k: None and 0 are both falsy
EffectiveK(top_k, default) ==
    IF top_k = None \/ top_k = <<0>> THEN default ELSE top_k[1]

\* {r.chunk_id: i + 1 for i, r in enumerate(results)}: the last position of an id
RankOf(results, doc_id) ==
    CHOOSE i \in 1..Len(results) :
        /\ results[i].chunk_id = doc_id
        /\ \A j \in (i + 1)..Len(results) : results[j].chunk_id # doc_id

ResultIds(results) == {results[i].chunk_id : i \in 1..Len(results)}

\* whether a division of the score loop has a zero divisor
RrfDividesByZero(rrf_k, semantic_results, bm25_results) ==
    \/ \E i \in 1..Len(semantic_results) :
          RankOf(semantic_results, semantic_results[i].chunk_id) + rrf_k = 0
    \/ \E i \in 1..Len(bm25_results) :
          RankOf(bm25_results, bm25_results[i].chunk_id) + rrf_k = 0

\* the body of the score loop for one doc_id
RrfScore(doc_id, rrf_k, weight, semantic_results, bm25_results) ==
    LET semantic == IF doc_id \in ResultIds(semantic_results)
                    THEN Rat(weight[1],
                             weight[2] * (rrf_k + RankOf(semantic_results, doc_id)))
                    ELSE <<0, 1>>
        keyword == IF doc_id \in ResultIds(bm25_results)
                   THEN Rat(weight[2] - weight[1],
                            weight[2] * (rrf_k + RankOf(bm25_results, doc_id)))
                   ELSE <<0, 1>>
    IN RatAdd(semantic, keyword)

\* a sort that forgets reverse = True
RECURSIVE InsertRatAsc(_, _)
InsertRatAsc(sorted, item) ==
    IF sorted = <<>> THEN <<item>>
    ELSE IF RatGeq(item.score, Head(sorted).score)
         THEN <<Head(sorted)>> \o InsertRatAsc(Tail(sorted), item)
         ELSE <<item>> \o sorted

\* sorted(ids, key = score, reverse = True) on fractions: stable
RECURSIVE InsertRatDesc(_, _)
InsertRatDesc(sorted, item) ==
    IF sorted = <<>> THEN <<item>>
    ELSE IF RatGeq(Head(sorted).score, item.score)
         THEN <<Head(sorted)>> \o InsertRatDesc(Tail(sorted), item)
         ELSE <<item>> \o sorted

RECURSIVE SortedRatDesc(_)
SortedRatDesc(items) ==
    IF items = <<>> THEN <<>>
    ELSE InsertRatDesc(SortedRatDesc(SubSeq(items, 1, Len(items) - 1)),
                       items[Len(items)])

\* a lookup in which the keyword results overwrite the semantic ones
LookupKeywordLast(doc_id, semantic_results, bm25_results) ==
    IF doc_id \in ResultIds(bm25_results)
    THEN bm25_results[RankOf(bm25_results, doc_id)]
    ELSE semantic_results[RankOf(semantic_results, doc_id)]

\* content_lookup / metadata_lookup: the semantic results first, the keyword results
\* only for the ids not yet there
Lookup(doc_id, semantic_results, bm25_results) ==
    IF doc_id \in ResultIds(semantic_results)
    THEN semantic_results[RankOf(semantic_results, doc_id)]
    ELSE bm25_results[RankOf(bm25_results, doc_id)]

\* the iteration orders a set of strings can have
IterationOrders(S) == {order \in Arrangements(S, Cardinality(S)) : Len(order) = Cardinality(S)}

\* HybridRetriever.retrieve after the two searches: fusion, sort, truncation and
\* result building, with all_ids iterated in the given order
Fuse(k, rrf_k, weight, semantic_results, bm25_results, order) ==
    LET rrf_scores == [i \in 1..Len(order) |->
                         [id |-> order[i],
                          score |-> RrfScore(order[i], rrf_k, weight,
                                             semantic_results, bm25_results)]]
        sorted_ids == Slice(SortedRatDesc(rrf_scores), k)
    IN [i \in 1..Len(sorted_ids) |->
          LET doc_id == sorted_ids[i].id
              found == Lookup(doc_id, semantic_results, bm25_results)
          IN [chunk_id |-> doc_id,
              content |-> found.content,
              score |-> sorted_ids[i].score,
              semantic_rank |-> IF doc_id \in ResultIds(semantic_results)
                                THEN <<RankOf(semantic_results, doc_id)>> ELSE None,
              bm25_rank |-> IF doc_id \in ResultIds(bm25_results)
                            THEN <<RankOf(bm25_results, doc_id)>> ELSE None,
              metadata |-> found.metadata]]

\* what retrieve returns or raises for the given outcome of the keyword search
RetrieveOutcome(k, semantic_results, keyword, order) ==
    IF keyword.raised
       \/ RrfDividesByZero(retriever.rrf_k, semantic_results, keyword.results)
    THEN [raised |-> TRUE, results |-> <<>>]
    ELSE [raised |-> FALSE,
          results |-> Fuse(k, retriever.rrf_k, retriever.semantic_weight,
                           semantic_results, keyword.results, order)]

Retrieve(query, top_k) ==
    LET k == EffectiveK(top_k, retriever.top_k)
        candidate_k == k * 3
        keyword == IndexSearch(query, candidate_k)
    IN /\ last = Idle
       /\ retriever.constructed
       /\ \E semantic_results \in VectorSearch(candidate_k) :
          \E order \in IterationOrders(ResultIds(semantic_results)
                                       \cup ResultIds(keyword.results)) :
            LET out == RetrieveOutcome(k, semantic_results, keyword, order) IN
            last' = [op |-> "retrieve", query |-> query, top_k |-> top_k,
                     vector_top_k |-> candidate_k, bm25_top_k |-> candidate_k,
                     semantic_results |-> semantic_results,
                     bm25_results |-> keyword.results,
                     raised |-> out.raised, results |-> out.results]
       /\ idf_cache' = keyword.cache
       /\ UNCHANGED <<documents, metadata, doc_lengths, avgdl, inverted_index, retriever,
                    reranker, chunker, added>>

----------------------------------------------------------------------------
(* Rerankers (docint/retrieval/reranker.py) *)

(* A candidate's text is a run of one character, [char, len]; scores are   *)
(* Python floats in hundredths.                                            *)

\* largest number of candidates handed to one rerank call
MaxCandidates == 2

\* document[:1000]
DocumentCap == 1000

\* text[:n] of a run
Truncate(text, n) == [char |-> text.char, len |-> Min(text.len, n)]

\* the candidates a caller passes: a long text, a short one, one of exactly
\* the cap, with vector-store and BM25-sized original scores
CandidatePool ==
    { [chunk_id |-> "c1", content |-> [char |-> "x", len |-> 1500], score |-> 90,
       metadata |-> GivenMeta],
      [chunk_id |-> "c2", content |-> [char |-> "y", len |-> 1], score |-> 10,
       metadata |-> EmptyMeta],
      [chunk_id |-> "c3", content |-> [char |-> "z", len |-> 1000], score |-> 230,
       metadata |-> EmptyMeta] }

CandidateLists == UNION {[1..n -> CandidatePool] : n \in 0..MaxCandidates}

\* response.choices[0].message.content of a scoring call: a text, or NoText
\* (Python's None, which is no sequence of characters) when the message
\* carries none
NoText == <<"None">>
ScoreTexts == { <<"9">>, <<"2">>, <<"1", "5">>, <<"-", "3">>, <<" ", "7", "\n">>,
                <<"7", ".", "5">>, <<"h", "i", "g", "h">>, <<>> }
ScoreResponses == ScoreTexts \cup {NoText}

\* what CrossEncoder.predict returns for a pair: an unbounded relevance logit
PredictScores == {-1120, 30, 850}

IsSpace(char) == char \in {" ", "\n", "\t"}

\* str.strip()
RECURSIVE LStrip(_)
LStrip(text) ==
    IF text # <<>> /\ IsSpace(Head(text)) THEN LStrip(Tail(text)) ELSE text

RECURSIVE RStrip(_)
RStrip(text) ==
    IF text # <<>> /\ IsSpace(text[Len(text)])
    THEN RStrip(SubSeq(text, 1, Len(text) - 1)) ELSE text

Strip(text) == RStrip(LStrip(text))

DigitValue == ("0" :> 0) @@ ("1" :> 1) @@ ("2" :> 2) @@ ("3" :> 3) @@ ("4" :> 4)
              @@ ("5" :> 5) @@ ("6" :> 6) @@ ("7" :> 7) @@ ("8" :> 8) @@ ("9" :> 9)

AllDigits(text) == text # <<>> /\ \A i \in 1..Len(text) : text[i] \in DOMAIN DigitValue

RECURSIVE DigitsValue(_)
DigitsValue(text) ==
    IF text = <<>> THEN 0
    ELSE DigitsValue(SubSeq(text, 1, Len(text) - 1)) * 10 + DigitValue[text[Len(text)]]

\* float(text) on a signed decimal with at most one digit after the point, in
\* tenths; any other text of ScoreTexts is a ValueError
ParseFloat(text) ==
    LET negative == text # <<>> /\ Head(text) = "-"
        body == IF negative THEN Tail(text) ELSE text
        sign == IF negative THEN -1 ELSE 1
        n == Len(body)
    IN IF AllDigits(body)
       THEN [error |-> FALSE, tenths |-> sign * DigitsValue(body) * 10]
       ELSE IF /\ n >= 3
               /\ body[n - 1] = "."
               /\ AllDigits(SubSeq(body, 1, n - 2))
               /\ body[n] \in DOMAIN DigitValue
            THEN [error |-> FALSE,
                  tenths |-> sign * (DigitsValue(SubSeq(body, 1, n - 2)) * 10
                                     + DigitValue[body[n]])]
            ELSE [error |-> TRUE, tenths |-> 0]

\* the fallback of a response that is not a number: 0.5
FallbackScore == 50

\* LLMReranker._score_pair from the response on: strip, float, clamp to
\* [0, 10], divide by 10; ValueError and TypeError give 0.5, the
\* AttributeError of None.strip() is not caught
ScorePair(response) ==
    IF response = NoText THEN [raised |-> TRUE, score |-> 0]
    ELSE LET parsed == ParseFloat(Strip(response)) IN
         IF parsed.error THEN [raised |-> FALSE, score |-> FallbackScore]
         ELSE [raised |-> FALSE, score |-> Min(Max(parsed.tenths, 0), 100)]

NoReranker == [kind |-> "none"]

\* LLMReranker.__init__
ConstructLLMReranker ==
    /\ last = Idle
    /\ reranker = NoReranker
    /\ reranker' = [kind |-> "llm"]
    /\ last' = [op |-> "construct"]
    /\ UNCHANGED <<indexVars, retriever, chunker, added>>

\* CrossEncoderReranker.__init__: _available tells whether the import succeeded
ConstructCrossEncoderReranker(available) ==
    /\ last = Idle
    /\ reranker = NoReranker
    /\ reranker' = [kind |-> "cross_encoder", available |-> available]
    /\ last' = [op |-> "construct"]
    /\ UNCHANGED <<indexVars, retriever, chunker, added>>

\* a sort by rerank_score without reverse=True
RECURSIVE InsertRerankAsc(_, _)
InsertRerankAsc(sorted, item) ==
    IF sorted = <<>> THEN <<item>>
    ELSE IF Head(sorted).rerank_score <= item.rerank_score
         THEN <<Head(sorted)>> \o InsertRerankAsc(Tail(sorted), item)
         ELSE <<item>> \o sorted

\* a descending sort that puts an item before the earlier items of equal score
RECURSIVE InsertRerankUnstable(_, _)
InsertRerankUnstable(sorted, item) ==
    IF sorted = <<>> THEN <<item>>
    ELSE IF Head(sorted).rerank_score > item.rerank_score
         THEN <<Head(sorted)>> \o InsertRerankUnstable(Tail(sorted), item)
         ELSE <<item>> \o sorted

\* scored_results.sort(key = rerank_score, reverse = True): stable
RECURSIVE InsertRerankDesc(_, _)
InsertRerankDesc(sorted, item) ==
    IF sorted = <<>> THEN <<item>>
    ELSE IF Head(sorted).rerank_score >= item.rerank_score
         THEN <<Head(sorted)>> \o InsertRerankDesc(Tail(sorted), item)
         ELSE <<item>> \o sorted

RECURSIVE SortedByRerank(_)
SortedByRerank(items) ==
    IF items = <<>> THEN <<>>
    ELSE InsertRerankDesc(SortedByRerank(SubSeq(items, 1, Len(items) - 1)),
                          items[Len(items)])

\* the scored dicts: the candidate with its rerank_score, its 1-based input
\* position and its original score
Scored(results, scores) ==
    [i \in 1..Len(results) |->
        [chunk_id |-> results[i].chunk_id, content |-> results[i].content,
         metadata |-> results[i].metadata, rerank_score |-> scores[i],
         original_rank |-> i, original_score |-> results[i].score]]

\* the RerankResult list built from the first top_k scored dicts
RerankResults(scored, top_k) ==
    LET top == Slice(scored, top_k) IN
    [i \in 1..Len(top) |->
        [chunk_id |-> top[i].chunk_id, content |-> top[i].content,
         original_score |-> top[i].original_score,
         rerank_score |-> top[i].rerank_score,
         original_rank |-> top[i].original_rank, new_rank |-> i,
         metadata |-> top[i].metadata]]

\* positions whose scoring call ends in an exception
Failing(responses) == {i \in 1..Len(responses) : ScorePair(responses[i]).raised}

\* LLMReranker.rerank: one scoring call per candidate, in input order, each
\* with the document cut to DocumentCap characters; the first call that raises
\* ends the rerank
LLMRerankOutcome(results, top_k, responses) ==
    LET failing == Failing(responses)
        calls == IF failing = {} THEN Len(results)
                 ELSE CHOOSE i \in failing : \A j \in failing : i <= j
        requests == [i \in 1..calls |->
                        [documents |-> <<Truncate(results[i].content, DocumentCap)>>]]
    IN IF failing # {}
       THEN [requests |-> requests, raised |-> TRUE, results |-> <<>>]
       ELSE [requests |-> requests, raised |-> FALSE,
             results |-> RerankResults(
                 SortedByRerank(Scored(results,
                     [i \in 1..Len(results) |-> ScorePair(responses[i]).score])),
                 top_k)]

LLMRerank(results, top_k, responses) ==
    LET out == LLMRerankOutcome(results, top_k, responses) IN
    /\ last = Idle
    /\ reranker.kind = "llm"
    /\ last' = [op |-> "rerank", candidates |-> results, top_k |-> top_k,
                responses |-> responses,
                requests |-> out.requests, raised |-> out.raised,
                results |-> out.results]
    /\ UNCHANGED <<indexVars, retriever, reranker, chunker, added>>

\* the list the cross-encoder reranker returns without its model: results[:top_k]
\* with the original score as rerank_score and the input position as both ranks
FallbackResults(results, top_k) ==
    LET top == Slice(results, top_k) IN
    [i \in 1..Len(top) |->
        [chunk_id |-> top[i].chunk_id, content |-> top[i].content,
         original_score |-> top[i].score,
         rerank_score |-> top[i].score,
         original_rank |-> i, new_rank |-> i,
         metadata |-> top[i].metadata]]

\* a rerank that asks the model for scores whether or not it was loaded
CrossEncoderAlwaysScores(results, top_k, scores) ==
    IF results = <<>>
    THEN [requests |-> <<>>, responses |-> <<>>, results |-> <<>>]
    ELSE [requests |-> <<[documents |-> [i \in 1..Len(results) |-> results[i].content]]>>,
          responses |-> scores,
          results |-> RerankResults(SortedByRerank(Scored(results, scores)), top_k)]

\* CrossEncoderReranker.rerank: without the model the first top_k candidates
\* in input order with their original scores; with it one predict call on all
\* (query, content) pairs and a sort by the returned scores
CrossEncoderOutcome(results, top_k, scores) ==
    IF results = <<>>
    THEN [requests |-> <<>>, responses |-> <<>>, results |-> <<>>]
    ELSE IF ~reranker.available
    THEN [requests |-> <<>>, responses |-> <<>>,
          results |-> FallbackResults(results, top_k)]
    ELSE [requests |-> <<[documents |-> [i \in 1..Len(results) |-> results[i].content]]>>,
          responses |-> scores,
          results |-> RerankResults(SortedByRerank(Scored(results, scores)), top_k)]

CrossEncoderRerank(results, top_k, scores) ==
    /\ last = Idle
    /\ reranker.kind = "cross_encoder"
    /\ LET out == CrossEncoderOutcome(results, top_k, scores) IN
       last' = [op |-> "rerank", candidates |-> results, top_k |-> top_k,
                responses |-> out.responses, requests |-> out.requests,
                raised |-> FALSE, results |-> out.results]
    /\ UNCHANGED <<indexVars, retriever, reranker, chunker, added>>

----------------------------------------------------------------------------
(* Query expanders (docint/retrieval/hyde.py) *)

\* the passages a generation call returns: plain, padded, two words, empty,
\* with a leading newline, and one that repeats a query
PassageTexts == { <<"p">>, <<" ", "p", "\n">>, <<"p", " ", "q">>, <<>>,
                  <<"\n", "q">>, <<"a">> }

\* the variation lists a generation call returns: empty, one line, padded
\* lines with a blank one and a fourth line, blank lines only, two lines,
\* a line with inner blanks and a tab, four lines
VariationTexts ==
    { <<>>, <<"p">>,
      <<" ", "p", " ", "\n", "\n", " ", "q", "\n", "r", "\n", "s", "\n">>,
      <<"\n", " ", "\n">>, <<"p", "\n", "q">>,
      <<"p", " ", "q", "\n", "\t", "r">>,
      <<"p", "\n", "q", "\n", "r", "\n", "s">> }

\* the vectors the embedder returns
Vectors == {"v1", "v2"}

\* no response received yet
Pending == <<"pending">>

\* variations[:3]
MaxVariations == 3

\* text.split('\n')
RECURSIVE SplitLines(_)
SplitLines(text) ==
    IF \A i \in 1..Len(text) : text[i] # "\n" THEN <<text>>
    ELSE LET i == CHOOSE j \in 1..Len(text) :
                      text[j] = "\n" /\ \A h \in 1..(j - 1) : text[h] # "\n"
         IN <<SubSeq(text, 1, i - 1)>> \o SplitLines(SubSeq(text, i + 1, Len(text)))

\* [q.strip() for q in lines if q.strip()]
RECURSIVE StrippedNonBlank(_)
StrippedNonBlank(lines) ==
    IF lines = <<>> THEN <<>>
    ELSE (IF Strip(Head(lines)) # <<>> THEN <<Strip(Head(lines))>> ELSE <<>>)
         \o StrippedNonBlank(Tail(lines))

\* an expansion that keeps every variation
VariationsUncut(response) ==
    StrippedNonBlank(SplitLines(Strip(response)))

\* MultiQueryExpander.expand from the response text on
Variations(response) ==
    Slice(StrippedNonBlank(SplitLines(Strip(response))), MaxVariations)

\* MultiQueryExpander.expand: one generation call; its failure, and the
\* AttributeError of a response without text, leave the method as they are
MultiQueryExpand(query, failed, response) ==
    /\ last = Idle
    /\ last' = IF failed
               THEN [op |-> "multi_query", query |-> query, generated |-> Pending,
                     failed |-> "generation", raised |-> TRUE, result |-> None]
               ELSE IF response = NoText
               THEN [op |-> "multi_query", query |-> query, generated |-> response,
                     failed |-> "response", raised |-> TRUE, result |-> None]
               ELSE [op |-> "multi_query", query |-> query, generated |-> response,
                     failed |-> "none", raised |-> FALSE,
                     result |-> <<<<query>> \o Variations(response)>>]
    /\ UNCHANGED <<indexVars, retriever, reranker, chunker, added>>

\* HyDEExpander.expand, entry: the generation request is sent
HyDEExpand(query) ==
    /\ last = Idle
    /\ last' = [op |-> "hyde", pc |-> "generating", query |-> query,
                requests |-> <<[kind |-> "generation", input |-> query]>>,
                generated |-> Pending, embedded |-> None,
                failed |-> "none", raised |-> FALSE, result |-> None]
    /\ UNCHANGED <<indexVars, retriever, reranker, chunker, added>>

\* a generation step that embeds the query instead of the passage
GenerationReturnsEmbedsQuery(response) ==
    /\ last.op = "hyde"
    /\ last.pc = "generating"
    /\ last' = IF response = NoText
               THEN [last EXCEPT !.pc = "done", !.generated = response,
                                 !.failed = "response", !.raised = TRUE]
               ELSE [last EXCEPT !.pc = "embedding", !.generated = response,
                                 !.requests = @ \o <<[kind |-> "embedding",
                                                      input |-> last.query]>>]
    /\ UNCHANGED <<indexVars, retriever, reranker, chunker, added>>

\* the generation call returns: hypothetical_doc = content.strip(), then
\* the embedding request for it is sent
GenerationReturns(response) ==
    /\ last.op = "hyde"
    /\ last.pc = "generating"
    /\ last' = IF response = NoText
               THEN [last EXCEPT !.pc = "done", !.generated = response,
                                 !.failed = "response", !.raised = TRUE]
               ELSE [last EXCEPT !.pc = "embedding", !.generated = response,
                                 !.requests = @ \o <<[kind |-> "embedding",
                                                      input |-> Strip(response)]>>]
    /\ UNCHANGED <<indexVars, retriever, reranker, chunker, added>>

\* a generation failure answered by embedding the query itself
GenerationFailsFallsBack ==
    /\ last.op = "hyde"
    /\ last.pc = "generating"
    /\ last' = [last EXCEPT !.pc = "embedding", !.failed = "generation",
                            !.requests = @ \o <<[kind |-> "embedding",
                                                 input |-> last.query]>>]
    /\ UNCHANGED <<indexVars, retriever, reranker, chunker, added>>

\* the generation call raises: nothing in expand catches it
GenerationFails ==
    /\ last.op = "hyde"
    /\ last.pc = "generating"
    /\ last' = [last EXCEPT !.pc = "done", !.failed = "generation", !.raised = TRUE]
    /\ UNCHANGED <<indexVars, retriever, reranker, chunker, added>>

\* embed_single returns: the HyDEResult is built and returned
EmbeddingReturns(vector) ==
    /\ last.op = "hyde"
    /\ last.pc = "embedding"
    /\ last' = [last EXCEPT !.pc = "done", !.embedded = <<vector>>,
                            !.result = <<[original_query |-> last.query,
                                          hypothetical_document |->
                                              last.requests[Len(last.requests)].input,
                                          embedding |-> vector]>>]
    /\ UNCHANGED <<indexVars, retriever, reranker, chunker, added>>

\* embed_single raises
EmbeddingFails ==
    /\ last.op = "hyde"
    /\ last.pc = "embedding"
    /\ last' = [last EXCEPT !.pc = "done", !.failed = "embedding", !.raised = TRUE]
    /\ UNCHANGED <<indexVars, retriever, reranker, chunker, added>>

----------------------------------------------------------------------------
(* FixedChunker (docint/ingest/chunkers.py) *)

\* bounds on the chunk size and on the length of a document
MaxChunkSize == 4
MaxDocLen == 3

\* document.content: the texts of at most MaxDocLen characters, blank ones included
RECURSIVE TextsOfLen(_)
TextsOfLen(n) ==
    IF n = 0 THEN { <<>> }
    ELSE {Append(text, char) : text \in TextsOfLen(n - 1), char \in {"x", " "}}

DocTexts == UNION {TextsOfLen(n) : n \in 0..MaxDocLen}

ChunkSizes == 1..MaxChunkSize

ChunkOverlaps == (-1)..MaxChunkSize

NoChunker == [constructed |-> FALSE]

\* FixedChunker(chunk_size, chunk_overlap)
ConstructFixedChunker(chunk_size, chunk_overlap) ==
    /\ last = Idle
    /\ IF chunk_overlap >= chunk_size
       THEN /\ last' = [op |-> "FixedChunker", raised |-> TRUE]
            /\ UNCHANGED chunker
       ELSE /\ chunker' = [constructed |-> TRUE, chunk_size |-> chunk_size,
                           chunk_overlap |-> chunk_overlap]
            /\ last' = [op |-> "FixedChunker", raised |-> FALSE]
    /\ UNCHANGED <<indexVars, retriever, reranker, added>>

\* the while loop of chunk, from position start (0-based) on; text[start:end]
\* with 0 <= start < end
RECURSIVE ChunkLoop(_, _, _, _, _, _)
ChunkLoop(text, start, chunk_index, chunks, chunk_size, chunk_overlap) ==
    IF ~(start < Len(text)) THEN chunks
    ELSE LET end == start + chunk_size
             chunk_text == SubSeq(text, start + 1, Min(end, Len(text)))
             yields == Strip(chunk_text) # <<>>
             yielded ==
                 IF yields
                 THEN Append(chunks,
                             [content |-> chunk_text,
                              metadata |-> [chunk_index |-> chunk_index,
                                            chunk_start |-> start,
                                            chunk_end |-> Min(end, Len(text)),
                                            chunker |-> "fixed",
                                            chunk_size |-> chunk_size,
                                            chunk_overlap |-> chunk_overlap]])
                 ELSE chunks
         IN IF end - chunk_overlap <= 0 /\ end >= Len(text) THEN yielded
            ELSE ChunkLoop(text, end - chunk_overlap,
                           IF yields THEN chunk_index + 1 ELSE chunk_index,
                           yielded, chunk_size, chunk_overlap)

\* list(chunker.chunk(document)) for a document without metadata
ChunksOf(text, chunk_size, chunk_overlap) ==
    IF Strip(text) = <<>> THEN <<>>
    ELSE ChunkLoop(text, 0, 0, <<>>, chunk_size, chunk_overlap)

Chunk(text) ==
    /\ last = Idle
    /\ chunker.constructed
    /\ last' = [op |-> "chunk", text |-> text,
                chunks |-> ChunksOf(text, chunker.chunk_size, chunker.chunk_overlap)]
    /\ UNCHANGED <<indexVars, retriever, reranker, chunker, added>>

----------------------------------------------------------------------------
Init ==
    /\ documents = <<>>
    /\ metadata = <<>>
    /\ doc_lengths = <<>>
    /\ avgdl = <<0, 1>>
    /\ inverted_index = <<>>
    /\ idf_cache = <<>>
    /\ retriever = NoRetriever
    /\ reranker = NoReranker
    /\ chunker = NoChunker
    /\ added = {}
    /\ last = Idle

\* the caller has consumed what the last call returned
Discard ==
    /\ last # Idle
    /\ last.op = "hyde" => last.pc = "done"
    /\ last.op = "searches" => \A i \in DOMAIN last.frames : last.frames[i].pc = "done"
    /\ last' = Idle
    /\ UNCHANGED <<indexVars, retriever, reranker, chunker, added>>

Next ==
    \/ \E call \in AddCalls : Add(call.ids, call.contents, call.metadatas)
    \/ Clear
    \/ \E query \in Queries, top_k \in 0..MaxTopK : Search(query, top_k)
    \/ Count
    \/ Discard

Spec == Init /\ [][Next]_vars

\* The hybrid retriever over an index built by one add call with distinct ids
IndexBuilds ==
    UNION {[ids : {ids \in Arrangements(DocIds, n) : Len(ids) = n},
            contents : [1..n -> Corpus],
            metadatas : {None, [i \in 1..n |-> GivenMeta]}] : n \in 0..Cardinality(DocIds)}

EmptyIndex == [documents |-> <<>>, metadata |-> <<>>, doc_lengths |-> <<>>,
               inverted_index |-> <<>>]

HybridInit ==
    \E call \in IndexBuilds :
        LET ix == AddAll(EmptyIndex,
                         Zip(call.ids, call.contents,
                             MetadataList(call.ids, call.metadatas)))
        IN /\ documents = ix.documents
           /\ metadata = ix.metadata
           /\ doc_lengths = ix.doc_lengths
           /\ inverted_index = ix.inverted_index
           /\ avgdl = NewAvgdl(ix.doc_lengths, <<0, 1>>)
           /\ idf_cache = <<>>
           /\ retriever = NoRetriever
           /\ reranker = NoReranker
           /\ chunker = NoChunker
           /\ added = {call.ids[i] : i \in 1..Len(call.ids)}
           /\ last = Idle

\* callers that keep to the documented parameter ranges
HybridNext ==
    \/ \E rrf_k \in ValidRrfK, semantic_weight \in ValidWeights :
          Construct(DefaultTopK, rrf_k, semantic_weight)
    \/ \E query \in Queries, top_k \in TopKArgs : Retrieve(query, top_k)
    \/ Discard

SpecHybrid == HybridInit /\ [][HybridNext]_vars

\* callers that pass any constructor arguments of the declared types
HybridAnyNext ==
    \/ \E rrf_k \in RrfKArgs, semantic_weight \in WeightArgs :
          Construct(DefaultTopK, rrf_k, semantic_weight)
    \/ \E query \in Queries, top_k \in TopKArgs : Retrieve(query, top_k)
    \/ Discard

SpecHybridAny == HybridInit /\ [][HybridAnyNext]_vars

\* Ranking: searches on an index built by one add call over texts of one to
\* three tokens, in which an identifier may come more than once
MaxRankBatch == 3

RankCorpus == Corpus \cup { <<"a">>, <<"a", " ", "a", " ", "b">> }

RankBuilds ==
    UNION {[ids : [1..n -> DocIds], contents : [1..n -> RankCorpus]] : n \in 0..MaxRankBatch}

RankInit ==
    \E call \in RankBuilds :
        LET ix == AddAll(EmptyIndex,
                         Zip(call.ids, call.contents, MetadataList(call.ids, None)))
        IN /\ documents = ix.documents
           /\ metadata = ix.metadata
           /\ doc_lengths = ix.doc_lengths
           /\ inverted_index = ix.inverted_index
           /\ avgdl = NewAvgdl(ix.doc_lengths, <<0, 1>>)
           /\ idf_cache = <<>>
           /\ retriever = NoRetriever
           /\ reranker = NoReranker
           /\ chunker = NoChunker
           /\ added = {call.ids[i] : i \in 1..Len(call.ids)}
           /\ last = Idle

RankNext ==
    \/ \E query \in Queries, top_k \in 0..MaxTopK : Search(query, top_k)
    \/ Discard

SpecRank == RankInit /\ [][RankNext]_vars

\* Case and separators: searches on an index built by one add call over texts
\* that hold a letter whose upper case is two letters
MaxCaseBatch == 2

CaseCorpus == Corpus \cup { <<"ß">> }

CaseQueries == Queries \cup { <<"ß">>, <<"S", "s">> }

CaseBuilds ==
    UNION {[ids : [1..n -> DocIds], contents : [1..n -> CaseCorpus]] : n \in 0..MaxCaseBatch}

CaseInit ==
    \E call \in CaseBuilds :
        LET ix == AddAll(EmptyIndex,
                         Zip(call.ids, call.contents, MetadataList(call.ids, None)))
        IN /\ documents = ix.documents
           /\ metadata = ix.metadata
           /\ doc_lengths = ix.doc_lengths
           /\ inverted_index = ix.inverted_index
           /\ avgdl = NewAvgdl(ix.doc_lengths, <<0, 1>>)
           /\ idf_cache = <<>>
           /\ retriever = NoRetriever
           /\ reranker = NoReranker
           /\ chunker = NoChunker
           /\ added = {call.ids[i] : i \in 1..Len(call.ids)}
           /\ last = Idle

CaseNext ==
    \/ \E query \in CaseQueries, top_k \in 0..MaxTopK : Search(query, top_k)
    \/ Discard

SpecCase == CaseInit /\ [][CaseNext]_vars

\* Concurrent searches: on an index built by one add call, in which an
\* identifier may come twice, two threads search at a time, their steps
\* interleaved in every way
ConcurrentBuilds ==
    UNION {[ids : [1..n -> DocIds], contents : [1..n -> Corpus]] :
              n \in 0..Cardinality(DocIds)}

ConcurrentInit ==
    \E call \in ConcurrentBuilds :
        LET ix == AddAll(EmptyIndex,
                         Zip(call.ids, call.contents, MetadataList(call.ids, None)))
        IN /\ documents = ix.documents
           /\ metadata = ix.metadata
           /\ doc_lengths = ix.doc_lengths
           /\ inverted_index = ix.inverted_index
           /\ avgdl = NewAvgdl(ix.doc_lengths, <<0, 1>>)
           /\ idf_cache = <<>>
           /\ retriever = NoRetriever
           /\ reranker = NoReranker
           /\ chunker = NoChunker
           /\ added = {call.ids[i] : i \in 1..Len(call.ids)}
           /\ last = Idle

ConcurrentNext ==
    \/ /\ last = Idle
       /\ \E query1, query2 \in Queries, top_k \in 0..MaxTopK :
             StartSearches(query1, query2, top_k)
    \/ \E i \in {1, 2} : SearchStep(i)
    \/ Discard

SpecConcurrent == ConcurrentInit /\ [][ConcurrentNext]_vars

\* Chunking: chunkers constructed and documents chunked, the index left empty
ChunkNext ==
    \/ /\ last = Idle
       /\ \E chunk_size \in ChunkSizes, chunk_overlap \in ChunkOverlaps :
             ConstructFixedChunker(chunk_size, chunk_overlap)
    \/ /\ last = Idle
       /\ \E text \in DocTexts : Chunk(text)
    \/ Discard

SpecChunk == Init /\ [][ChunkNext]_vars

\* The rerankers, over candidate lists of at most MaxCandidates elements
RerankNext ==
    \/ ConstructLLMReranker
    \/ \E available \in BOOLEAN : ConstructCrossEncoderReranker(available)
    \/ /\ last = Idle
       /\ \E results \in CandidateLists, top_k \in 0..MaxTopK :
             \E responses \in [1..Len(results) -> ScoreResponses] :
                 LLMRerank(results, top_k, responses)
    \/ /\ last = Idle
       /\ \E results \in CandidateLists, top_k \in 0..MaxTopK :
             \E scores \in [1..Len(results) -> PredictScores] :
                 CrossEncoderRerank(results, top_k, scores)
    \/ Discard

SpecRerank == Init /\ [][RerankNext]_vars

\* The query expanders
ExpandNext ==
    \/ \E query \in Queries : HyDEExpand(query)
    \/ \E response \in PassageTexts \cup {NoText} : GenerationReturns(response)
    \/ GenerationFails
    \/ \E vector \in Vectors : EmbeddingReturns(vector)
    \/ EmbeddingFails
    \/ \E query \in Queries, response \in VariationTexts \cup {NoText} :
          MultiQueryExpand(query, FALSE, response)
    \/ \E query \in Queries : MultiQueryExpand(query, TRUE, Pending)
    \/ Discard

SpecExpand == Init /\ [][ExpandNext]_vars

----------------------------------------------------------------------------
(* Properties of the keyword index, checked under Spec *)

TokenSet(text) == {Tokenize(text)[i] : i \in 1..Len(Tokenize(text))}

\* the indexed items whose current text contains a token of the query
Matching(query) ==
    {d \in DOMAIN documents : TokenSet(documents[d]) \cap TokenSet(query) # {}}

\* C1: once an identifier has been re-added with new text the index holds only
\* the new text for it: a search for one token never returns an item whose
\* current text lacks the token, and returns every item whose current text has
\* it when top_k leaves room for all items.
C1_ReAddReplacesText ==
    (last.op = "search" /\ Len(Tokenize(last.query)) = 1) =>
        \A d \in DOMAIN documents :
            /\ d \notin Matching(last.query) => d \notin ResultIds(last.results)
            /\ (d \in Matching(last.query) /\ last.top_k >= Cardinality(DOMAIN documents))
                  => d \in ResultIds(last.results)

\* C2: with k1 > 0 no search ends in a division by zero, whatever add and clear
\* calls came before it.
C2_SearchNeverDividesByZero ==
    last.op = "search" => ~last.raised

\* C7: a search returns at most top_k results in non-increasing score order,
\* each with a query token in its current text, all matching items when at most
\* top_k match, and the empty list when nothing matches.
C7_SearchContract ==
    last.op = "search" =>
        LET res == last.results IN
        /\ ~last.raised
        /\ Len(res) <= last.top_k
        /\ \A i \in 1..(Len(res) - 1) : res[i].score >= res[i + 1].score
        /\ ResultIds(res) \subseteq Matching(last.query)
        /\ Cardinality(Matching(last.query)) <= last.top_k
              => Matching(last.query) \subseteq ResultIds(res)
        /\ Matching(last.query) = {} => res = <<>>

\* C20: count() is the number of distinct identifiers passed to add since
\* construction or the last clear: a call that only re-adds identifiers leaves
\* it as it was, and it is 0 right after clear.
C20_CountIsDistinctAdded ==
    [][/\ CountOf(documents) = Cardinality(added)
       /\ CountOf(documents') = Cardinality(added')
       /\ last'.op = "count" => last'.value = Cardinality(added')
       /\ last'.op = "clear" => CountOf(documents') = 0
       /\ (last'.op = "add" /\ added' = added)
              => CountOf(documents') = CountOf(documents)]_vars

\* C20 witness: an add call has re-added an identifier while two are indexed
C20_Witness ==
    /\ last.op = "add"
    /\ last.replaced # {}
    /\ CountOf(documents) = 2

\* the text in lower case
LowerText(text) == [i \in 1..Len(text) |-> Lower(text[i])]

\* the positions at which a maximal run of alphanumeric characters starts
RunStarts(text) ==
    {i \in 1..Len(text) : IsAlnum(text[i]) /\ (i = 1 \/ ~IsAlnum(text[i - 1]))}

\* the position at which the maximal run starting at i ends
RunEnd(text, i) ==
    CHOOSE j \in i..Len(text) :
        /\ \A k \in i..j : IsAlnum(text[k])
        /\ j = Len(text) \/ ~IsAlnum(text[j + 1])

\* the tokens of the text are the maximal alphanumeric runs of its lower case,
\* in order
TokensAreRuns(text) ==
    LET tokens == Tokenize(text)
        low == LowerText(text)
        starts == RunStarts(low)
    IN /\ Len(tokens) = Cardinality(starts)
       /\ \A n \in 1..Len(tokens) :
             LET i == CHOOSE j \in starts : Cardinality({h \in starts : h < j}) = n - 1
             IN /\ tokens[n] = SubSeq(low, i, RunEnd(low, i))
                /\ tokens[n] # <<>>
                /\ \A k \in 1..Len(tokens[n]) : IsAlnum(tokens[n][k])

\* str.swapcase: every cased letter in its other case; the upper case of one
\* letter can be two letters
SwapCaseChar(char) ==
    CASE char = "a" -> <<"A">> [] char = "A" -> <<"a">>
      [] char = "b" -> <<"B">> [] char = "B" -> <<"b">>
      [] char = "c" -> <<"C">> [] char = "C" -> <<"c">>
      [] char = "s" -> <<"S">> [] char = "S" -> <<"s">>
      [] char = "ß" -> <<"S", "S">>
      [] OTHER -> <<char>>

RECURSIVE SwapCase(_)
SwapCase(text) ==
    IF text = <<>> THEN <<>> ELSE SwapCaseChar(Head(text)) \o SwapCase(Tail(text))

\* the case of the letters a to z and A to Z changed, other characters kept
SwapAsciiCase(text) ==
    [i \in 1..Len(text) |-> IF text[i] = "ß" THEN "ß" ELSE SwapCaseChar(text[i])[1]]

\* every separator replaced by another non-alphanumeric character
SwapSeparators(text) ==
    [i \in 1..Len(text) |->
        CASE text[i] = " " -> "-" [] text[i] = "-" -> " " [] OTHER -> text[i]]

\* what a search gives on the index in which item d was added again as text
SearchAfterReadding(d, text) ==
    LET ix == AddOne(Index, [id |-> d, content |-> text, metadata |-> metadata[d]])
    IN SearchRun(last.query, last.top_k, ix.documents, ix.metadata, ix.inverted_index,
                 ix.doc_lengths, NewAvgdl(ix.doc_lengths, avgdl), idf_cache)

\* results without the texts they carry
WithoutContent(results) ==
    [i \in 1..Len(results) |->
        [chunk_id |-> results[i].chunk_id, score |-> results[i].score,
         metadata |-> results[i].metadata]]

\* the search just made gives the same under the change of case CaseOf of the
\* query or of an indexed text, and under a change of separators
SearchUnchangedBy(CaseOf(_)) ==
    last.op = "search" =>
        /\ \A variant \in {CaseOf(last.query), SwapSeparators(last.query)} :
              LET out == IndexSearch(variant, last.top_k)
              IN out.raised = last.raised /\ out.results = last.results
        /\ \A d \in DOMAIN documents :
              \A variant \in {CaseOf(documents[d]), SwapSeparators(documents[d])} :
                  LET out == SearchAfterReadding(d, variant)
                  IN /\ out.raised = last.raised
                     /\ WithoutContent(out.results) = WithoutContent(last.results)

\* the texts in play: the indexed ones and the query of the search just made
TextsInPlay ==
    {documents[d] : d \in DOMAIN documents}
        \cup (IF last.op = "search" THEN {last.query} ELSE {})

Position(results, doc_id) == CHOOSE i \in 1..Len(results) : results[i].chunk_id = doc_id

\* a search for one token that returned, with room for every indexed item
SingleTokenSearch ==
    /\ last.op = "search"
    /\ ~last.raised
    /\ Len(Tokenize(last.query)) = 1
    /\ last.top_k >= CountOf(documents)

\* occurrences of the query token in the current text of an item
Occurrences(d) == TermFreq(Tokenize(documents[d]), Tokenize(last.query)[1])

\* d is returned, and e is not or comes later
RanksAbove(d, e) ==
    /\ d \in ResultIds(last.results)
    /\ e \in ResultIds(last.results)
          => Position(last.results, d) < Position(last.results, e)

Posting(term) == IF term \in DOMAIN inverted_index THEN inverted_index[term] ELSE <<>>

\* the terms with a posting list or in a current text
Terms == DOMAIN inverted_index \cup UNION {TokenSet(documents[d]) : d \in DOMAIN documents}

\* C24: the posting of a token has an entry for an identifier exactly when the
\* token occurs in the identifier's current text, the entry is the number of
\* occurrences (>= 1), and so the length of the posting is the number of items
\* whose current text has the token.
C24_PostingsAgreeWithTexts ==
    \A term \in Terms :
        /\ \A d \in DOMAIN documents :
              d \in PostingIds(Posting(term)) <=> term \in TokenSet(documents[d])
        /\ \A i \in 1..Len(Posting(term)) :
              /\ Posting(term)[i].tf >= 1
              /\ Posting(term)[i].id \in DOMAIN documents
              /\ Posting(term)[i].tf
                    = TermFreq(Tokenize(documents[Posting(term)[i].id]), term)
        /\ Len(Posting(term))
              = Cardinality({d \in DOMAIN documents : term \in TokenSet(documents[d])})

\* C25: add and clear leave the IDF cache empty, and every cached value is the
\* IDF of the current item count and the current posting of its token.
C25_CacheNeverStale ==
    /\ last.op \in {"add", "clear"} => idf_cache = <<>>
    /\ \A term \in DOMAIN idf_cache :
          idf_cache[term] = IdfValue(CountOf(documents), Len(Posting(term)))

\* C25 witness: a search has cached the IDF of a token of one of two items,
\* different from its IDF when it was on the only item
C25_Witness ==
    /\ last.op = "search"
    /\ CountOf(documents) = 2
    /\ \E term \in DOMAIN idf_cache :
          /\ Len(Posting(term)) = 1
          /\ idf_cache[term] # IdfValue(1, 1)

\* C26: the average length is 0 only when the index is empty.
C26_ZeroAverageOnlyWhenEmpty ==
    avgdl[1] = 0 => CountOf(documents) = 0

\* C29: every identifier of a posting list is a key of the content, metadata
\* and length maps, and so is every identifier a search returns.
C29_PostingIdsAreKeys ==
    /\ \A term \in DOMAIN inverted_index :
          PostingIds(inverted_index[term])
              \subseteq (DOMAIN documents \cap DOMAIN metadata \cap DOMAIN doc_lengths)
    /\ DOMAIN documents = DOMAIN metadata
    /\ DOMAIN documents = DOMAIN doc_lengths
    /\ last.op = "search" => ResultIds(last.results) \subseteq DOMAIN documents

\* C29 witness: an identifier is still in the posting of a token that its
\* current text no longer has
C29_Witness ==
    \E term \in DOMAIN inverted_index :
        \E d \in PostingIds(inverted_index[term]) :
            /\ d \in DOMAIN documents
            /\ term \notin TokenSet(documents[d])

\* C30: right after clear every field of the index has the value it has in a
\* newly constructed index, whatever was indexed before, so that every later
\* call finds the state a new index would be in.
C30_ClearGivesNewIndex ==
    last.op = "clear" =>
        /\ documents = <<>>
        /\ metadata = <<>>
        /\ doc_lengths = <<>>
        /\ avgdl = <<0, 1>>
        /\ inverted_index = <<>>
        /\ idf_cache = <<>>
        /\ added = {}

\* C30 witness: clear has dropped two items
C30_Witness ==
    /\ last.op = "clear"
    /\ last.dropped = 2
    /\ CountOf(documents) = 0

----------------------------------------------------------------------------
(* Properties of the hybrid retriever, checked under SpecHybrid *)

Retrieved == last.op = "retrieve" /\ ~last.raised

\* the identifiers of either candidate list
Union == ResultIds(last.semantic_results) \cup ResultIds(last.bm25_results)

\* w / (rrf_k + semantic_rank) + (1 - w) / (rrf_k + keyword_rank), a source the
\* identifier is absent from contributing nothing
FusedScore(doc_id) ==
    LET w == retriever.semantic_weight
        s == IF doc_id \in ResultIds(last.semantic_results)
             THEN Rat(w[1], w[2] * (retriever.rrf_k
                                    + Position(last.semantic_results, doc_id)))
             ELSE <<0, 1>>
        kw == IF doc_id \in ResultIds(last.bm25_results)
              THEN Rat(w[2] - w[1], w[2] * (retriever.rrf_k
                                            + Position(last.bm25_results, doc_id)))
              ELSE <<0, 1>>
    IN RatAdd(s, kw)

\* the top_k of the call: the argument, or the retriever's own when none is passed
CallTopK == IF last.top_k = None THEN retriever.top_k ELSE last.top_k[1]

\* C3: retrieve returns at most top_k results for every top_k the caller passes.
C3_AtMostTopK ==
    (Retrieved /\ last.top_k # None) => Len(last.results) <= last.top_k[1]

\* C4: both sources are asked for exactly 3 * top_k candidates and every
\* returned identifier carries the weighted reciprocal-rank score of its two
\* 1-based ranks.
C4_CandidatesAndScores ==
    last.op = "retrieve" =>
        /\ last.vector_top_k = 3 * CallTopK
        /\ last.bm25_top_k = 3 * CallTopK
        /\ ~last.raised =>
              \A i \in 1..Len(last.results) :
                  /\ last.results[i].chunk_id \in Union
                  /\ last.results[i].score = FusedScore(last.results[i].chunk_id)

\* C5: the returned list is in non-increasing fused-score order, has no
\* identifier twice, and no identifier of the union left out has a strictly
\* greater fused score than a returned one.
C5_SortedTopSelection ==
    Retrieved =>
        LET res == last.results IN
        /\ ResultIds(res) \subseteq Union
        /\ \A i \in 1..(Len(res) - 1) : RatGeq(res[i].score, res[i + 1].score)
        /\ \A i, j \in 1..Len(res) : res[i].chunk_id = res[j].chunk_id => i = j
        /\ \A i \in 1..Len(res) : res[i].score = FusedScore(res[i].chunk_id)
        /\ \A out \in Union \ ResultIds(res) :
              \A i \in 1..Len(res) : ~RatGt(FusedScore(out), res[i].score)

\* C5 witness: three candidates with two different scores, truncated to two
C5_Witness ==
    /\ Retrieved
    /\ Cardinality(Union) = 3
    /\ Len(last.results) = 2
    /\ RatGt(last.results[1].score, last.results[2].score)

\* C6: for fixed candidate lists and parameters the returned list does not
\* depend on the order in which the identifier set is iterated.
C6_Deterministic ==
    Retrieved =>
        \A order \in IterationOrders(Union) :
            Fuse(EffectiveK(last.top_k, retriever.top_k), retriever.rrf_k,
                 retriever.semantic_weight, last.semantic_results,
                 last.bm25_results, order) = last.results

\* C8: no retriever with a semantic weight outside [0,1] or a negative rrf_k
\* ever executes retrieve.
C8_InvalidParametersRejected ==
    last.op = "retrieve" =>
        /\ retriever.rrf_k >= 0
        /\ RatGeq(retriever.semantic_weight, <<0, 1>>)
        /\ RatGeq(<<1, 1>>, retriever.semantic_weight)

\* C9: retrieve with a query that has no tokens returns the empty list and
\* raises nothing.
C9_EmptyQueryEmptyResult ==
    (last.op = "retrieve" /\ Tokenize(last.query) = <<>>) =>
        ~last.raised /\ last.results = <<>>

\* C10: a returned identifier found in both candidate lists carries the content
\* and metadata of the semantic result; the keyword index's are used only for
\* identifiers absent from the semantic list.
C10_SemanticPrecedence ==
    Retrieved =>
        \A i \in 1..Len(last.results) :
            LET doc_id == last.results[i].chunk_id
                from == IF doc_id \in ResultIds(last.semantic_results)
                        THEN last.semantic_results[Position(last.semantic_results, doc_id)]
                        ELSE last.bm25_results[Position(last.bm25_results, doc_id)]
            IN /\ last.results[i].content = from.content
               /\ last.results[i].metadata = from.metadata

\* C10 witness: an identifier of both lists is returned, and the two sources
\* disagree on its content and metadata
C10_Witness ==
    /\ Retrieved
    /\ \E i \in 1..Len(last.results), j \in 1..Len(last.bm25_results) :
          /\ last.results[i].chunk_id = last.bm25_results[j].chunk_id
          /\ last.results[i].chunk_id \in ResultIds(last.semantic_results)
          /\ last.bm25_results[j].content # StoreContent
          /\ last.bm25_results[j].metadata # StoreMeta
          /\ last.results[i].content = StoreContent

\* C11: when the same identifier is ranked first by the vector store and by the
\* keyword index and top_k >= 1, the call returns a list that starts with that
\* identifier, for every retriever the constructor accepts.
C11_BothFirstWins ==
    (/\ last.op = "retrieve"
     /\ last.top_k # None => last.top_k[1] >= 1
     /\ last.semantic_results # <<>>
     /\ last.bm25_results # <<>>
     /\ last.semantic_results[1].chunk_id = last.bm25_results[1].chunk_id) =>
        /\ ~last.raised
        /\ last.results # <<>>
        /\ last.results[1].chunk_id = last.semantic_results[1].chunk_id
        /\ \A i \in 2..Len(last.results) :
              last.results[i].chunk_id # last.semantic_results[1].chunk_id

----------------------------------------------------------------------------
(* Properties of the rerankers, checked under SpecRerank *)

\* a rerank call of the LLM reranker that returned
LLMReranked == last.op = "rerank" /\ reranker.kind = "llm" /\ ~last.raised

Malformed(response) == response = NoText \/ ParseFloat(Strip(response)).error

\* C13: when the response for exactly one candidate is malformed, rerank still
\* returns: that candidate has rerank_score 0.5 and every other candidate the
\* clamped value of its own response divided by 10.
C13_MalformedResponseTolerated ==
    (/\ last.op = "rerank"
     /\ reranker.kind = "llm"
     /\ Cardinality({i \in 1..Len(last.responses) : Malformed(last.responses[i])}) = 1) =>
        /\ ~last.raised
        /\ \A i \in 1..Len(last.results) :
              LET response == last.responses[last.results[i].original_rank] IN
              last.results[i].rerank_score =
                  IF Malformed(response) THEN FallbackScore
                  ELSE Min(Max(ParseFloat(Strip(response)).tenths, 0), 100)

\* C14: every result of a rerank call, of either reranker and with or without
\* the cross-encoder model, has a rerank_score in [0, 1].
C14_ScoreInUnitInterval ==
    last.op = "rerank" =>
        \A i \in 1..Len(last.results) :
            /\ last.results[i].rerank_score >= 0
            /\ last.results[i].rerank_score <= 100

\* a rerank call of a cross-encoder reranker whose model could not be loaded
FallbackReranked ==
    last.op = "rerank" /\ reranker.kind = "cross_encoder" /\ ~reranker.available

\* C15: without the model, rerank makes no scoring call and returns the first
\* min(top_k, n) candidates in input order, the i-th with original_rank =
\* new_rank = i.
C15_FallbackKeepsInputOrder ==
    FallbackReranked =>
        LET res == last.results IN
        /\ last.requests = <<>>
        /\ ~last.raised
        /\ Len(res) = Min(last.top_k, Len(last.candidates))
        /\ \A i \in 1..Len(res) :
              /\ res[i].chunk_id = last.candidates[i].chunk_id
              /\ res[i].content = last.candidates[i].content
              /\ res[i].metadata = last.candidates[i].metadata
              /\ res[i].original_rank = i
              /\ res[i].new_rank = i

\* C15 witness: two candidates are returned in input order although the second
\* has the higher original score
C15_Witness ==
    /\ FallbackReranked
    /\ Len(last.results) = 2
    /\ last.candidates[1].score < last.candidates[2].score
    /\ last.results[1].chunk_id = last.candidates[1].chunk_id
    /\ last.results[1].chunk_id # last.candidates[2].chunk_id

\* C16: no scoring request of either reranker carries more than the first
\* 1000 characters of a candidate's text.
C16_DocumentsCapped ==
    last.op = "rerank" =>
        \A r \in 1..Len(last.requests) :
            \A d \in 1..Len(last.requests[r].documents) :
                last.requests[r].documents[d].len <= DocumentCap

\* a result list without its rerank scores
WithoutRerankScore(res) ==
    [i \in 1..Len(res) |->
        [chunk_id |-> res[i].chunk_id, content |-> res[i].content,
         original_score |-> res[i].original_score,
         original_rank |-> res[i].original_rank, new_rank |-> res[i].new_rank,
         metadata |-> res[i].metadata]]

\* a rerank call of a cross-encoder reranker with its model in which every
\* candidate got the same score
TiedCrossEncoderRerank ==
    /\ last.op = "rerank"
    /\ reranker.kind = "cross_encoder"
    /\ reranker.available
    /\ \A i, j \in 1..Len(last.responses) : last.responses[i] = last.responses[j]

\* C28: in the results of either reranker candidates of equal rerank score are
\* in input order, and a cross-encoder rerank whose scores all tie returns what
\* the fallback returns for the same candidates and top_k, rerank_score apart.
C28_TiesKeepInputOrder ==
    /\ (last.op = "rerank" /\ ~last.raised) =>
          \A i, j \in 1..Len(last.results) :
              (i < j /\ last.results[i].rerank_score = last.results[j].rerank_score)
                  => last.results[i].original_rank < last.results[j].original_rank
    /\ TiedCrossEncoderRerank =>
          WithoutRerankScore(last.results)
              = WithoutRerankScore(FallbackResults(last.candidates, last.top_k))

\* C28 witness: two different candidates tie in a cross-encoder rerank and are
\* both returned
C28_Witness ==
    /\ TiedCrossEncoderRerank
    /\ Len(last.results) = 2
    /\ last.candidates[1].chunk_id # last.candidates[2].chunk_id
    /\ last.results[1].rerank_score = last.results[2].rerank_score
    /\ last.results[1].rerank_score # last.results[1].original_score

----------------------------------------------------------------------------
(* Properties of the query expanders, checked under SpecExpand *)

\* a multi-query expansion that returned
MultiQueryExpanded == last.op = "multi_query" /\ ~last.raised

\* the lines of a text that hold a character other than white space, as they
\* stand in the text
RECURSIVE NonBlank(_)
NonBlank(lines) ==
    IF lines = <<>> THEN <<>>
    ELSE (IF \E i \in 1..Len(Head(lines)) : ~IsSpace(Head(lines)[i])
          THEN <<Head(lines)>> ELSE <<>>) \o NonBlank(Tail(lines))

\* C17 as stated: the list starts with the original query, has 1 to 4
\* elements, and its other elements are the first up-to-3 non-blank lines of
\* the response, in order.
C17_VariationsAreResponseLines ==
    MultiQueryExpanded =>
        LET res == last.result[1]
            lines == NonBlank(SplitLines(last.generated))
        IN /\ Len(res) \in 1..4
           /\ res[1] = last.query
           /\ Tail(res) = Slice(lines, 3)

\* C17 amended: the list starts with the original query, has 1 to 4 elements,
\* and its other elements are the first up-to-3 non-blank lines of the
\* response, in order, each without its leading and trailing white space.
C17_VariationsAreStrippedLines ==
    MultiQueryExpanded =>
        LET res == last.result[1]
            lines == NonBlank(SplitLines(last.generated))
        IN /\ Len(res) \in 1..4
           /\ res[1] = last.query
           /\ Len(res) - 1 = Min(3, Len(lines))
           /\ \A i \in 1..(Len(res) - 1) : res[i + 1] = Strip(lines[i])

\* C17 witness: a response with padded lines, a blank line and four
\* variations is cut to three
C17_Witness ==
    /\ MultiQueryExpanded
    /\ Len(NonBlank(SplitLines(last.generated))) = 4
    /\ \E i \in 1..Len(SplitLines(last.generated)) : SplitLines(last.generated)[i] = <<>>
    /\ NonBlank(SplitLines(last.generated))[1] # Strip(NonBlank(SplitLines(last.generated))[1])
    /\ Len(last.result[1]) = 4

\* the positions of the requests of one kind in the log of a HyDE expansion
RequestsOf(kind) == {i \in 1..Len(last.requests) : last.requests[i].kind = kind}

\* C18: a HyDE expansion issues exactly one generation request and, after its
\* response, at most one embedding request, whose input is the generated
\* passage and never the query as such; an expansion that returns has issued
\* exactly one, and returns the passage with the vector computed for it.
C18_GenerateThenEmbedPassage ==
    last.op = "hyde" =>
        /\ Cardinality(RequestsOf("generation")) = 1
        /\ Cardinality(RequestsOf("embedding")) <= 1
        /\ \A e \in RequestsOf("embedding") :
              /\ \A g \in RequestsOf("generation") : g < e
              /\ last.generated \notin {Pending, NoText}
              /\ last.requests[e].input = Strip(last.generated)
        /\ (last.pc = "done" /\ ~last.raised) =>
              /\ Cardinality(RequestsOf("embedding")) = 1
              /\ last.result # None
              /\ last.result[1].original_query = last.query
              /\ last.result[1].hypothetical_document = Strip(last.generated)
              /\ last.result[1].embedding = last.embedded[1]

\* C18 witness: an expansion has returned whose passage came padded and
\* differs from the query
C18_Witness ==
    /\ last.op = "hyde"
    /\ last.pc = "done"
    /\ ~last.raised
    /\ Strip(last.generated) # last.generated
    /\ Strip(last.generated) # last.query
    /\ last.result[1].embedding = "v2"

\* C19: when the generation call of either expander fails, expand raises:
\* there is no result, and HyDE issues no embedding request.
C19_GenerationFailurePropagates ==
    (last.op \in {"hyde", "multi_query"} /\ last.failed = "generation") =>
        /\ last.raised
        /\ last.result = None
        /\ last.op = "hyde" =>
              /\ last.pc = "done"
              /\ RequestsOf("embedding") = {}
              /\ last.embedded = None

\* C19 witness: the generation call of a HyDE expansion has failed
C19_Witness ==
    /\ last.op = "hyde"
    /\ last.failed = "generation"
    /\ last.generated = Pending
    /\ Len(last.requests) = 1

----------------------------------------------------------------------------
(* Properties of the chunker, checked under SpecChunk *)

\* a document that is not blank and shorter than the chunk size was chunked
SmallDocumentChunked ==
    /\ last.op = "chunk"
    /\ Strip(last.text) # <<>>
    /\ Len(last.text) < chunker.chunk_size

\* C23: a document that is not blank and shorter than the chunk size gives
\* exactly one chunk, whose content is the whole document.
C23_SmallDocumentIsOneChunk ==
    SmallDocumentChunked =>
        /\ Len(last.chunks) = 1
        /\ last.chunks[1].content = last.text

----------------------------------------------------------------------------
(* Properties of concurrent searches, checked under SpecConcurrent *)

\* what the search of a thread gives when it runs alone on the index as it was
\* when the threads started
Alone(frame) ==
    SearchRun(frame.query, frame.top_k, last.before.index.documents,
              last.before.index.metadata, last.before.index.inverted_index,
              last.before.index.doc_lengths, last.before.avgdl, last.before.cache)

\* C27: while searches interleave, texts, metadata, lengths, average length
\* and postings stay as they were and the IDF cache only gains entries; every
\* search that has returned gave what it gives alone; and two writes of the
\* cache entry of one term wrote the same value.
C27_InterleavedSearchesAsAlone ==
    last.op = "searches" =>
        /\ Index = last.before.index
        /\ avgdl = last.before.avgdl
        /\ \A term \in DOMAIN last.before.cache :
              term \in DOMAIN idf_cache /\ idf_cache[term] = last.before.cache[term]
        /\ \A i \in DOMAIN last.frames :
              last.frames[i].pc = "done" =>
                  /\ last.frames[i].raised = Alone(last.frames[i]).raised
                  /\ last.frames[i].results = Alone(last.frames[i]).results
        /\ \A w1, w2 \in last.writes : w1.term = w2.term => w1.idf = w2.idf
        /\ \A w \in last.writes :
              w.term \in DOMAIN idf_cache /\ idf_cache[w.term] = w.idf

\* C27 witness: both threads found the entry of a term missing and both wrote
\* it, one also read an entry the other had written, and both returned results
C27_Witness ==
    /\ last.op = "searches"
    /\ \A i \in DOMAIN last.frames :
          last.frames[i].pc = "done" /\ last.frames[i].results # <<>>
    /\ \E w1, w2 \in last.writes : w1.term = w2.term /\ w1.thread # w2.thread
    /\ \E term \in DOMAIN idf_cache :
          \E i \in DOMAIN last.frames :
              /\ term \in TokenSet(last.frames[i].query)
              /\ \A w \in last.writes : w.term = term => w.thread # i

============================================================================
